---- MODULE Spec2Model ----
(***************************************************************************)
(* Transaction cache and status-poll controller.                           *)
(*                                                                         *)
(* Two implementations live in the repository: the modular hook            *)
(* useTransactionsManager (with useTransactionPagination,                  *)
(* useTransactionFilters, useTransactionObservables, useTransactionsState, *)
(* useTransactionStatusRefresh) and the combined hook useTransactions.     *)
(* The variable impl says which one a behaviour runs; operators of the     *)
(* combined hook carry the prefix UT_.                                     *)
(*                                                                         *)
(* React semantics: a callback reads the state values of the render it was *)
(* created in (its closure); setState calls take effect for the next       *)
(* render.  A handler is one action: it reads the closure (the committed   *)
(* state when it is called) and commits its setState calls.  The part of   *)
(* an async handler after an await is a later action that still reads the  *)
(* values captured at call time, which the in-flight request carries.      *)
(***************************************************************************)
EXTENDS Integers, Sequences, FiniteSets, TLC

VARIABLES
    impl,                             \* "manager" | "hook"
    offset,                           \* useState(0)
    filter,                           \* useState({})
    dateMode,                         \* useState({})
    lastUpdated,                      \* useState<Date | null>(null), ms
    errorOccuredDuringLastUpdate,     \* useState(false)
    transactionsObservableRef,        \* BehaviorSubject value of the main list, or null
    circleTransactionsObservableRef,  \* BehaviorSubject value of the circle list, or null
    paymentSubscriptionRef,           \* null, or the closure of the subscribed forceUpdate
    inflight,                         \* list requests awaiting their response
    now,                              \* wall clock, ms
    ticks,                            \* number of clock advances so far
    budget,                           \* list requests the behaviour may still issue
    lastOp,                           \* history: the operation of the last step
    lastReq,                          \* history: the request that step issued, if any
    prefs,                            \* UserPreferenceKeys.reqChkTxnParams: the persisted list
    polls,                            \* status polls suspended at their status fetch
    lastSnacks,                       \* history: SnackService calls of the last step
    lastPoll,                         \* history: the poll call or response of the last step
    served                            \* history: status fetches started so far

listVars == <<impl, offset, filter, dateMode, lastUpdated, errorOccuredDuringLastUpdate,
              transactionsObservableRef, circleTransactionsObservableRef,
              paymentSubscriptionRef, inflight, now, ticks, budget, lastOp, lastReq>>

pollVars == <<prefs, polls, lastSnacks, lastPoll, served>>

vars == <<listVars, pollVars>>

----------------------------------------------------------------------------
(* Bounds *)
MaxFetches == 2        \* list requests issued in one behaviour
MaxMainFetches == 3    \* the same, when only the main list is operated
MaxInFlight == 2       \* list requests outstanding at once
MaxTicks == 1          \* clock advances in one behaviour
MaxOffset == 40        \* largest cursor offset

(* Program constants *)
pageSize == 20
duration == 30 * 60 * 1000

NULL == -1
Impls == {"manager", "hook"}
Filters == {"none", "vpa", "upiLite"}     \* {}, { vpa }, { upiLite }
DateModes == {"none", "range"}
circleFilter == "upiCircle"
Counts == {20, 45}                        \* txnsCount values the server reports
Times == {0, 1799000, 1800000, 1801000}   \* clock values, ms
RecognizedActions == {"SENT", "APPROVED", "DECLINED", "FAILED",
                      "DIRECT_PAY_FAILED", "DIRECT_PAY_SENT"}
PaymentActions == RecognizedActions \cup {"CANCELLED"}

Min(a, b) == IF a < b THEN a ELSE b
Max(a, b) == IF a < b THEN b ELSE a

----------------------------------------------------------------------------
(* The transport: what the server holds for a request filter.              *)
FilterIdx(f) ==
    CASE f = "none" -> 0 [] f = "vpa" -> 1 [] f = "upiLite" -> 2 [] OTHER -> 3

\* The transaction at position i (1-based) of the server's list for filter f.
Txn(id) ==
    LET i == id % 100 IN
    [id |-> id,
     status |-> IF i % 4 = 1 THEN "PENDING" ELSE "SUCCESS",
     selfInitiated |-> (i % 2 = 0),
     isICDRequested |-> (i % 8 = 1),
     purpose |-> IF i % 16 = 13 THEN "PAYMENT" ELSE "SEND_TO_SELF"]

\* RestClient.silentPost('transactionsList', {}, {...requestFilter, limit, offset})
\* answered by a server holding count transactions for the filter.
ServerPage(f, limit, off, count) ==
    [i \in 1 .. Max(0, Min(limit, count - off)) |-> FilterIdx(f) * 100 + off + i]

isICDCashDepositPendingTransaction(transaction) ==
    /\ transaction.status = "PENDING"
    /\ (transaction.selfInitiated = TRUE \/ transaction.selfInitiated = FALSE)
    /\ transaction.isICDRequested = FALSE
    /\ (transaction.purpose = "SEND_TO_SELF" \/ transaction.purpose = "SEND_TO_OTHER")

filterICDPendingTransactions_KeepsAll(txns) == txns

filterICDPendingTransactions(txns) ==
    SelectSeq(txns, LAMBDA id : ~isICDCashDepositPendingTransaction(Txn(id)))

----------------------------------------------------------------------------
(* Maybe<PaginatedTransactions> values held by a BehaviorSubject.  Of the   *)
(* payload the model keeps transactions, count, hasNext and showShimmer;   *)
(* pages is history: the request offsets of the pages the list was built   *)
(* from.                                                                   *)
(* totalCbAmount, reqChkTxnCheckPoint1 and fetchedTimestamp are carried    *)
(* through unread.                                                         *)
NoRef == [tag |-> "null", transactions |-> <<>>, count |-> 0, hasNext |-> FALSE,
          showShimmer |-> FALSE, pages |-> <<>>]
MaybeUnresolved == [NoRef EXCEPT !.tag = "unresolved"]
MaybeError == [NoRef EXCEPT !.tag = "error"]
MaybeOf(data) ==
    [tag |-> "data", transactions |-> data.transactions, count |-> data.count,
     hasNext |-> data.hasNext, showShimmer |-> data.showShimmer, pages |-> data.pages]

shimmerData(count) ==
    [transactions |-> <<>>, count |-> count, hasNext |-> FALSE, showShimmer |-> TRUE,
     pages |-> <<>>]

hasNextPage_Inclusive(count, off) == off + pageSize <= count

hasNextPage(count, off) == off + pageSize < count

paginate(txnsCount, transactions, off, reqOffset) ==
    [transactions |-> transactions, count |-> txnsCount,
     hasNext |-> hasNextPage(txnsCount, off), showShimmer |-> FALSE,
     pages |-> <<reqOffset>>]

\* The closure of the forceUpdate of the current render: the state values
\* its body (and the getTransactions, onSuccess it calls) reads.  The
\* manager's forceUpdate reads filter; the combined hook's reads filter and,
\* through getTransactions and hasNextPage, offset.
Closure == [filter |-> filter, offset |-> IF impl = "hook" THEN offset ELSE 0]
NoClosure == [filter |-> "null", offset |-> 0]

NoReq == [rid |-> 0, list |-> "none", kind |-> "none", filter |-> "null", offset |-> 0,
          existing |-> <<>>, pages |-> <<>>]

\* Requests outstanding are told apart by the slot they occupy.
FreeSlot == CHOOSE k \in 1 .. MaxInFlight + 1 : \A r \in inflight : r.rid # k

\* existing: the existingTransactions a fetchMore read before its await.
Request(list, kind, f, off, existing, pages) ==
    [rid |-> FreeSlot, list |-> list, kind |-> kind, filter |-> f, offset |-> off,
     existing |-> existing, pages |-> pages]

CanIssue == budget > 0 /\ Cardinality(inflight) < MaxInFlight

Issue(req) ==
    /\ inflight' = inflight \cup {req}
    /\ budget' = budget - 1
    /\ lastReq' = req

NoIssue ==
    /\ inflight' = inflight
    /\ budget' = budget
    /\ lastReq' = NoReq

----------------------------------------------------------------------------
(* useTransactionsManager: forceUpdate, forceCircleUpdate.                 *)
(* cl is the closure of the forceUpdate that runs.  The caller conjoins    *)
(* filter', dateMode' and the other list's ref.                            *)
forceUpdate_KeepsOffset(cl) ==
    /\ CanIssue
    /\ offset' = offset
    /\ lastUpdated' = now
    /\ errorOccuredDuringLastUpdate' = FALSE
    /\ transactionsObservableRef' =
          IF transactionsObservableRef.tag = "null"
          THEN MaybeUnresolved
          ELSE MaybeOf(shimmerData(1))
    /\ Issue(Request("main", "first", cl.filter, 0, <<>>, <<>>))
    /\ UNCHANGED <<circleTransactionsObservableRef, paymentSubscriptionRef>>

forceUpdate(cl) ==
    /\ CanIssue
    /\ offset' = 0
    /\ lastUpdated' = now
    /\ errorOccuredDuringLastUpdate' = FALSE
    /\ transactionsObservableRef' =
          IF transactionsObservableRef.tag = "null"
          THEN MaybeUnresolved
          ELSE MaybeOf(shimmerData(1))
    /\ Issue(Request("main", "first", cl.filter, 0, <<>>, <<>>))
    /\ UNCHANGED <<circleTransactionsObservableRef, paymentSubscriptionRef>>

forceCircleUpdate(cl) ==
    /\ CanIssue
    /\ offset' = 0
    /\ lastUpdated' = now
    /\ errorOccuredDuringLastUpdate' = FALSE
    /\ circleTransactionsObservableRef' =
          IF circleTransactionsObservableRef.tag = "null"
          THEN MaybeUnresolved
          ELSE MaybeOf(shimmerData(0))
    /\ Issue(Request("circle", "first", circleFilter, 0, <<>>, <<>>))
    /\ UNCHANGED <<transactionsObservableRef, paymentSubscriptionRef>>

(* useTransactions (combined hook): forceUpdate, forceCircleUpdate.        *)
(* getTransactions() reads filter and offset from the closure.             *)
UT_subscribePaymentActions(cl) ==
    paymentSubscriptionRef' =
        IF paymentSubscriptionRef = NoClosure THEN cl ELSE paymentSubscriptionRef

UT_forceUpdate(cl) ==
    /\ CanIssue
    /\ offset' = 0
    /\ lastUpdated' = now
    /\ errorOccuredDuringLastUpdate' = errorOccuredDuringLastUpdate
    /\ transactionsObservableRef' =
          IF transactionsObservableRef.tag = "null"
          THEN MaybeUnresolved
          ELSE MaybeOf(shimmerData(1))
    /\ UT_subscribePaymentActions(cl)
    /\ Issue(Request("main", "first", cl.filter, cl.offset, <<>>, <<>>))
    /\ UNCHANGED circleTransactionsObservableRef

UT_forceCircleUpdate(cl) ==
    /\ CanIssue
    /\ offset' = 0
    /\ lastUpdated' = now
    /\ errorOccuredDuringLastUpdate' = errorOccuredDuringLastUpdate
    /\ circleTransactionsObservableRef' =
          IF circleTransactionsObservableRef.tag = "null"
          THEN MaybeUnresolved
          ELSE MaybeOf(shimmerData(0))
    /\ UT_subscribePaymentActions(cl)
    /\ Issue(Request("circle", "first", circleFilter, cl.offset, <<>>, <<>>))
    /\ UNCHANGED transactionsObservableRef

\* The forceUpdate of the implementation that runs.
ForceUpdate(cl) == IF impl = "manager" THEN forceUpdate(cl) ELSE UT_forceUpdate(cl)
ForceCircleUpdate(cl) ==
    IF impl = "manager" THEN forceCircleUpdate(cl) ELSE UT_forceCircleUpdate(cl)

----------------------------------------------------------------------------
(* Cache expiry *)
hasExpired ==
    IF lastUpdated = NULL THEN TRUE
    ELSE LET elapsed == now - lastUpdated IN elapsed >= duration

shouldUpdate ==
    transactionsObservableRef.tag = "null" \/ errorOccuredDuringLastUpdate \/ hasExpired

shouldUpdateCircleHistory ==
    circleTransactionsObservableRef.tag = "null" \/ errorOccuredDuringLastUpdate \/ hasExpired

----------------------------------------------------------------------------
(* Public API of the list: getList.                                        *)
fetchTransactionsList ==
    /\ lastOp' = "fetchTransactionsList"
    /\ IF shouldUpdate
       THEN ForceUpdate(Closure)
       ELSE /\ NoIssue
            /\ UNCHANGED <<offset, lastUpdated, errorOccuredDuringLastUpdate,
                           transactionsObservableRef, circleTransactionsObservableRef,
                           paymentSubscriptionRef>>
    /\ UNCHANGED <<impl, filter, dateMode, now, ticks>>

fetchCircleTransactionList ==
    /\ lastOp' = "fetchCircleTransactionList"
    /\ IF shouldUpdateCircleHistory
       THEN ForceCircleUpdate(Closure)
       ELSE /\ NoIssue
            /\ UNCHANGED <<offset, lastUpdated, errorOccuredDuringLastUpdate,
                           transactionsObservableRef, circleTransactionsObservableRef,
                           paymentSubscriptionRef>>
    /\ UNCHANGED <<impl, filter, dateMode, now, ticks>>

refetchTransactions ==
    /\ lastOp' = "refetchTransactions"
    /\ ForceUpdate(Closure)
    /\ UNCHANGED <<impl, filter, dateMode, now, ticks>>

refetchCircleTransactions ==
    /\ lastOp' = "refetchCircleTransactions"
    /\ ForceCircleUpdate(Closure)
    /\ UNCHANGED <<impl, filter, dateMode, now, ticks>>

----------------------------------------------------------------------------
(* Filter functions: useTransactionFilters; the combined hook has the same *)
(* bodies over its own forceUpdate.  setFilter/setDateMode are committed   *)
(* with the handler; the forceUpdate that is called is the one of the      *)
(* render the handler was created in.                                      *)
applyFilter(filterBy) ==
    /\ lastOp' = "applyFilter"
    /\ filter' = filterBy
    /\ ForceUpdate(Closure)
    /\ UNCHANGED <<impl, dateMode, now, ticks>>

applyDateMode(dateModeBy) ==
    /\ lastOp' = "applyDateMode"
    /\ dateMode' = dateModeBy
    /\ ForceUpdate(Closure)
    /\ UNCHANGED <<impl, filter, now, ticks>>

clearFilter ==
    /\ lastOp' = "clearFilter"
    /\ filter' = "none"
    /\ ForceUpdate(Closure)
    /\ UNCHANGED <<impl, dateMode, now, ticks>>

clearDateMode ==
    /\ lastOp' = "clearDateMode"
    /\ dateMode' = "none"
    /\ ForceUpdate(Closure)
    /\ UNCHANGED <<impl, filter, now, ticks>>

clearFilterWithoutUpdate ==
    /\ lastOp' = "clearFilterWithoutUpdate"
    /\ filter' = "none"
    /\ NoIssue
    /\ UNCHANGED <<impl, offset, dateMode, lastUpdated, errorOccuredDuringLastUpdate,
                   transactionsObservableRef, circleTransactionsObservableRef,
                   paymentSubscriptionRef, now, ticks>>

clearFilterWithUpdate ==
    /\ lastOp' = "clearFilterWithUpdate"
    /\ filter' = "none"
    /\ dateMode' = "none"
    /\ ForceUpdate(Closure)
    /\ UNCHANGED <<impl, now, ticks>>

filterforupiId ==
    /\ lastOp' = "filterforupiId"
    /\ filter' = "vpa"
    /\ ForceUpdate(Closure)
    /\ UNCHANGED <<impl, dateMode, now, ticks>>

upiLitefilter ==
    /\ lastOp' = "upiLitefilter"
    /\ filter' = "upiLite"
    /\ ForceUpdate(Closure)
    /\ UNCHANGED <<impl, dateMode, now, ticks>>

----------------------------------------------------------------------------
(* Load more.  The part of fetchMore before the await.                     *)
(* getValue().data.transactions: Maybe is not part of the sources; on a    *)
(* value that is not Resolved the read of .data.transactions either throws *)
(* (the catch publishes an error) or yields undefined (|| [] applies).     *)
MaybeDataThrows == {TRUE, FALSE}

fetchMoreCall(ref, list, reqFilter, reqOffset) ==
    IF ~errorOccuredDuringLastUpdate /\ ref.tag # "null"
    THEN /\ offset + pageSize <= MaxOffset
         /\ offset' = offset + pageSize
         /\ \/ /\ ref.tag = "data"
               /\ CanIssue
               /\ Issue(Request(list, "more", reqFilter, reqOffset,
                                ref.transactions, ref.pages))
               /\ UNCHANGED <<transactionsObservableRef, circleTransactionsObservableRef>>
            \/ /\ ref.tag # "data"
               /\ \E throws \in MaybeDataThrows :
                    IF throws
                    THEN /\ NoIssue
                         /\ IF list = "main"
                            THEN /\ transactionsObservableRef' = MaybeError
                                 /\ UNCHANGED circleTransactionsObservableRef
                            ELSE /\ circleTransactionsObservableRef' = MaybeError
                                 /\ UNCHANGED transactionsObservableRef
                    ELSE /\ CanIssue
                         /\ Issue(Request(list, "more", reqFilter, reqOffset,
                                          <<>>, <<>>))
                         /\ UNCHANGED <<transactionsObservableRef,
                                        circleTransactionsObservableRef>>
    ELSE /\ NoIssue
         /\ UNCHANGED <<offset, transactionsObservableRef, circleTransactionsObservableRef>>

\* useTransactionsManager.fetchMore: the request is issued at newOffset.
fetchMore ==
    /\ impl = "manager"
    /\ lastOp' = "fetchMore"
    /\ LET newOffset == offset + pageSize IN
         fetchMoreCall(transactionsObservableRef, "main", filter, newOffset)
    /\ UNCHANGED <<impl, filter, dateMode, lastUpdated, errorOccuredDuringLastUpdate,
                   paymentSubscriptionRef, now, ticks>>

fetchMoreCircleTxns ==
    /\ impl = "manager"
    /\ lastOp' = "fetchMoreCircleTxns"
    /\ LET newOffset == offset + pageSize IN
         fetchMoreCall(circleTransactionsObservableRef, "circle", circleFilter, newOffset)
    /\ UNCHANGED <<impl, filter, dateMode, lastUpdated, errorOccuredDuringLastUpdate,
                   paymentSubscriptionRef, now, ticks>>

\* useTransactions.fetchMore: getTransactions() reads offset from the closure.
UT_fetchMore ==
    /\ impl = "hook"
    /\ lastOp' = "fetchMore"
    /\ fetchMoreCall(transactionsObservableRef, "main", filter, offset)
    /\ UNCHANGED <<impl, filter, dateMode, lastUpdated, errorOccuredDuringLastUpdate,
                   paymentSubscriptionRef, now, ticks>>

UT_fetchMoreCircleTxns ==
    /\ impl = "hook"
    /\ lastOp' = "fetchMoreCircleTxns"
    /\ fetchMoreCall(circleTransactionsObservableRef, "circle", circleFilter, offset)
    /\ UNCHANGED <<impl, filter, dateMode, lastUpdated, errorOccuredDuringLastUpdate,
                   paymentSubscriptionRef, now, ticks>>

----------------------------------------------------------------------------
(* Responses.  Publish(list, m) is observableRef.current?.next(m).         *)
Publish(list, m) ==
    IF list = "main"
    THEN /\ transactionsObservableRef' =
               IF transactionsObservableRef.tag = "null" THEN NoRef ELSE m
         /\ UNCHANGED circleTransactionsObservableRef
    ELSE /\ circleTransactionsObservableRef' =
               IF circleTransactionsObservableRef.tag = "null" THEN NoRef ELSE m
         /\ UNCHANGED transactionsObservableRef

Settle(r) ==
    /\ inflight' = inflight \ {r}
    /\ lastReq' = r
    /\ UNCHANGED <<impl, offset, filter, dateMode, lastUpdated, paymentSubscriptionRef,
                   now, ticks, budget>>

onSuccess_Appends(r, error, txnsCount) ==
    /\ impl = "manager" /\ r.kind = "first"
    /\ lastOp' = IF error THEN "onSuccess.error" ELSE "onSuccess"
    /\ IF error
       THEN Publish(r.list, MaybeError)
       ELSE LET filteredTxns == filterICDPendingTransactions(
                                    ServerPage(r.filter, pageSize, r.offset, txnsCount))
            IN Publish(r.list, MaybeOf(paginate(txnsCount,
                                                (IF r.list = "main"
                                                 THEN transactionsObservableRef
                                                 ELSE circleTransactionsObservableRef
                                                ).transactions \o filteredTxns,
                                                0, r.offset)))
    /\ UNCHANGED errorOccuredDuringLastUpdate
    /\ Settle(r)

\* useTransactionPagination.onSuccess as forceUpdate calls it:
\* onSuccess(res, isCircle, updateObservable, filterICD, 0, lastUpdated!)
onSuccess(r, error, txnsCount) ==
    /\ impl = "manager" /\ r.kind = "first"
    /\ lastOp' = IF error THEN "onSuccess.error" ELSE "onSuccess"
    /\ IF error
       THEN Publish(r.list, MaybeError)
       ELSE LET filteredTxns == filterICDPendingTransactions(
                                    ServerPage(r.filter, pageSize, r.offset, txnsCount))
            IN Publish(r.list, MaybeOf(paginate(txnsCount, filteredTxns, 0, r.offset)))
    /\ UNCHANGED errorOccuredDuringLastUpdate
    /\ Settle(r)

onError_Retries(r) ==
    /\ impl = "manager" /\ r.kind = "first"
    /\ lastOp' = "onError"
    /\ Publish(r.list, MaybeError)
    /\ budget > 0
    /\ inflight' = inflight
    /\ budget' = budget - 1
    /\ lastReq' = r
    /\ UNCHANGED <<impl, offset, filter, dateMode, lastUpdated,
                   errorOccuredDuringLastUpdate, paymentSubscriptionRef, now, ticks>>

\* useTransactionPagination.onError: the request promise rejected.
onError(r) ==
    /\ impl = "manager" /\ r.kind = "first"
    /\ lastOp' = "onError"
    /\ Publish(r.list, MaybeError)
    /\ UNCHANGED errorOccuredDuringLastUpdate
    /\ Settle(r)

\* useTransactions.onError
UT_onError(r) ==
    /\ errorOccuredDuringLastUpdate' = TRUE
    /\ Publish(r.list, MaybeError)

\* useTransactions.onSuccess; paginate and hasNextPage read offset and
\* lastUpdated from the closure of the forceUpdate that issued the request.
UT_onSuccess(r, error, txnsCount) ==
    /\ impl = "hook" /\ r.kind = "first"
    /\ lastOp' = IF error THEN "onSuccess.error" ELSE "onSuccess"
    /\ IF error
       THEN UT_onError(r)
       ELSE /\ errorOccuredDuringLastUpdate' = FALSE
            /\ LET filteredTxns == filterICDPendingTransactions(
                                       ServerPage(r.filter, pageSize, r.offset, txnsCount))
               IN Publish(r.list,
                          MaybeOf(paginate(txnsCount, filteredTxns, r.offset, r.offset)))
    /\ Settle(r)

UT_onErrorRejected(r) ==
    /\ impl = "hook" /\ r.kind = "first"
    /\ lastOp' = "onError"
    /\ UT_onError(r)
    /\ Settle(r)

\* fetchMore / fetchMoreCircleTxns after the await (both implementations):
\* outcome "ok" | "error" (response.error) | "reject" (the catch block).
fetchMoreResume(r, outcome, txnsCount) ==
    /\ r.kind = "more"
    /\ lastOp' = IF outcome = "ok" THEN "fetchMore.ok" ELSE "fetchMore.failed"
    /\ IF outcome = "ok"
       THEN LET filteredTxns == filterICDPendingTransactions(
                                    ServerPage(r.filter, pageSize, r.offset, txnsCount))
                data == [hasNext |-> hasNextPage(txnsCount, r.offset),
                         transactions |-> r.existing \o filteredTxns,
                         count |-> txnsCount,
                         pages |-> Append(r.pages, r.offset),
                         showShimmer |-> FALSE]
            IN Publish(r.list, MaybeOf(data))
       ELSE Publish(r.list, MaybeError)
    /\ UNCHANGED errorOccuredDuringLastUpdate
    /\ Settle(r)

----------------------------------------------------------------------------
(* Payment events.                                                         *)
\* useTransactionObservables.initializeTransactionsObservable
initializeTransactionsObservable ==
    /\ impl = "manager"
    /\ lastOp' = "initializeTransactionsObservable"
    /\ transactionsObservableRef' =
          IF transactionsObservableRef.tag = "null"
          THEN MaybeUnresolved ELSE transactionsObservableRef
    /\ NoIssue
    /\ UNCHANGED <<impl, offset, filter, dateMode, lastUpdated,
                   errorOccuredDuringLastUpdate, circleTransactionsObservableRef,
                   paymentSubscriptionRef, now, ticks>>

initializeCircleTransactionsObservable ==
    /\ impl = "manager"
    /\ lastOp' = "initializeCircleTransactionsObservable"
    /\ circleTransactionsObservableRef' =
          IF circleTransactionsObservableRef.tag = "null"
          THEN MaybeUnresolved ELSE circleTransactionsObservableRef
    /\ NoIssue
    /\ UNCHANGED <<impl, offset, filter, dateMode, lastUpdated,
                   errorOccuredDuringLastUpdate, transactionsObservableRef,
                   paymentSubscriptionRef, now, ticks>>

\* useTransactionObservables.subscribePaymentActions: unsubscribe, subscribe
\* the forceUpdate of the current render.
subscribePaymentActions ==
    /\ impl = "manager"
    /\ lastOp' = "subscribePaymentActions"
    /\ paymentSubscriptionRef' = Closure
    /\ NoIssue
    /\ UNCHANGED <<impl, offset, filter, dateMode, lastUpdated,
                   errorOccuredDuringLastUpdate, transactionsObservableRef,
                   circleTransactionsObservableRef, now, ticks>>

\* One of the merged observables emits action; rxJsFilter passes the
\* recognized ones to the subscribed forceUpdate.
PaymentEvent(action) ==
    /\ paymentSubscriptionRef # NoClosure
    /\ lastOp' = IF action \in RecognizedActions THEN "paymentEvent" ELSE "paymentEvent.ignored"
    /\ IF action \in RecognizedActions
       THEN ForceUpdate(paymentSubscriptionRef)
       ELSE /\ NoIssue
            /\ UNCHANGED <<offset, lastUpdated, errorOccuredDuringLastUpdate,
                           transactionsObservableRef, circleTransactionsObservableRef,
                           paymentSubscriptionRef>>
    /\ UNCHANGED <<impl, filter, dateMode, now, ticks>>

Tick(t) ==
    /\ ticks > 0
    /\ now < t
    /\ now' = t
    /\ ticks' = ticks - 1
    /\ lastOp' = "tick"
    /\ NoIssue
    /\ UNCHANGED <<impl, offset, filter, dateMode, lastUpdated,
                   errorOccuredDuringLastUpdate, transactionsObservableRef,
                   circleTransactionsObservableRef, paymentSubscriptionRef>>

----------------------------------------------------------------------------
----------------------------------------------------------------------------
(* Status-poll rate limiter: useTransactionStatusRefresh, and the same     *)
(* logic inline in useTransactions.fetchTransactionStatusDetails.          *)
(* Times are ms; a counter is a number, null (NULL) or undefined (UNDEF).  *)
UNDEF == -2
TxnIds == {1}
TxnCreatedAt(id) == 0                    \* transaction.createdAt, ms
Roles == {"PRIMARY", "SECONDARY", "none"}
CheckPoint1s == {120}                    \* reqChkTxnCheckPoint1, s
PollTimes == {60000, 120000, 130000, 7200000}
Statuses == {"SUCCESS", "DECLINED", "EXPIRED", "PENDING", "DELEGATE_INITIATED"}

\* transaction.reqChkTxnParams as the server sends it: absent, all null, or numbers.
NoParams == [present |-> FALSE, currentCount |-> UNDEF, maxCount |-> UNDEF,
             checkPoint2 |-> UNDEF]
NullParams == [present |-> TRUE, currentCount |-> NULL, maxCount |-> NULL,
               checkPoint2 |-> NULL]
ServerParams ==
    {NoParams, NullParams} \cup
    {[present |-> TRUE, currentCount |-> cm[1], maxCount |-> cm[2], checkPoint2 |-> 7200] :
        cm \in {<<1, 3>>, <<2, 3>>, <<3, 3>>, <<3, 2>>}}

\* A successful transactionStatus response for transaction id.  payerInfo.role is
\* read only for a delegate-initiated status, and varies only there.
StatusResponses(id) ==
    {[id |-> id, status |-> st, reqChkTxnParams |-> pr, isReqChkTxnExhausted |-> ex,
      createdAt |-> TxnCreatedAt(id), role |-> ro] :
        st \in Statuses \ {"DELEGATE_INITIATED"}, pr \in ServerParams, ex \in BOOLEAN,
        ro \in {"none"}}
    \cup
    {[id |-> id, status |-> "DELEGATE_INITIATED", reqChkTxnParams |-> pr,
      isReqChkTxnExhausted |-> ex, createdAt |-> TxnCreatedAt(id), role |-> ro] :
        pr \in ServerParams, ex \in BOOLEAN, ro \in Roles}

NoPoll == [step |-> "none", id |-> 0, isExhausted |-> FALSE, role |-> "none",
           reqChkTxnCheckPoint1 |-> 0, branch |-> "none", status |-> "none",
           reqChkTxnParams |-> NoParams, respExhausted |-> FALSE, respRole |-> "none"]

\* JavaScript comparisons of a number with a counter that may be null or undefined.
ToNumber(x) == IF x = NULL THEN 0 ELSE x
JsLt(a, b) == IF a = UNDEF \/ b = UNDEF THEN FALSE ELSE ToNumber(a) < ToNumber(b)

futureDate_OmitsCheckPoint2(refreshedCreatedAt, checkPoint2) ==
    IF checkPoint2 = UNDEF THEN UNDEF ELSE refreshedCreatedAt

\* new Date(refreshedCreatedAt).getTime() + checkPoint2 * 1000; UNDEF is NaN.
futureDate(refreshedCreatedAt, checkPoint2) ==
    IF checkPoint2 = UNDEF THEN UNDEF ELSE refreshedCreatedAt + ToNumber(checkPoint2) * 1000

\* A Date of the formatter is its local time of day in milliseconds.
Hours == 0 .. 23
Minutes == 0 .. 59
DateAt(hours, minutes) == hours * 3600000 + minutes * 60000
getHours(date) == (date \div 3600000) % 24
getMinutes(date) == (date \div 60000) % 60

\* The characters of a template literal holding the number n: its decimal digits.
RECURSIVE Digits(_)
Digits(n) == IF n < 10 THEN <<n>> ELSE Digits(n \div 10) \o <<n % 10>>

formatTime12Hr_NoTwelve(date) ==
    LET hours == getHours(date)
        minutes == getMinutes(date)
    IN  [hours |-> Digits(hours % 12),
         minutes |-> IF minutes < 10 THEN <<0>> \o Digits(minutes) ELSE Digits(minutes),
         ampm |-> IF hours >= 12 THEN "PM" ELSE "AM"]

\* `${formattedHours}:${formattedMinutes} ${ampm}`, as its three parts.
formatTime12Hr(date) ==
    LET hours == getHours(date)
        minutes == getMinutes(date)
        ampm == IF hours >= 12 THEN "PM" ELSE "AM"
        formattedHours == IF hours % 12 = 0 THEN 12 ELSE hours % 12
        formattedMinutes == IF minutes < 10 THEN <<0>> \o Digits(minutes)
                            ELSE Digits(minutes)
    IN  [hours |-> Digits(formattedHours), minutes |-> formattedMinutes, ampm |-> ampm]

Snack(sev, key, arg) == [sev |-> sev, key |-> key, arg |-> arg]

findIndex_NeverFinds(parsed, id) == 0

\* parsedReqChkTxnData.findIndex(item => item.transactionId === transaction.id); 0 is -1.
findIndex(parsed, id) ==
    IF \E k \in 1 .. Len(parsed) : parsed[k].transactionId = id
    THEN CHOOSE k \in 1 .. Len(parsed) :
            /\ parsed[k].transactionId = id
            /\ \A j \in 1 .. k - 1 : parsed[j].transactionId # id
    ELSE 0

isNonFinalStatus_PendingOnly(status) == status = "PENDING"

isNonFinalStatus(status) ==
    status # "SUCCESS" /\ status # "DECLINED" /\ status # "EXPIRED"

\* The guards of the call; age is secondsSinceCreated * 1000.
blockedWithinCheckpoint1_Strict(role, age, reqChkTxnCheckPoint1) ==
    role # "PRIMARY" /\ role # "SECONDARY" /\ age < reqChkTxnCheckPoint1 * 1000

blockedWithinCheckpoint1(role, age, reqChkTxnCheckPoint1) ==
    role # "PRIMARY" /\ role # "SECONDARY" /\ age <= reqChkTxnCheckPoint1 * 1000

pastCheckpoint2_IgnoresExhausted(isExhausted, age, checkPoint2) ==
    IF checkPoint2 = UNDEF THEN FALSE ELSE age >= ToNumber(checkPoint2) * 1000

pastCheckpoint2(isExhausted, age, checkPoint2) ==
    /\ ~isExhausted
    /\ IF checkPoint2 = UNDEF THEN FALSE ELSE age >= ToNumber(checkPoint2) * 1000

withinCheckpoint2_IgnoresExhausted(isExhausted, currentCount, maxCount) ==
    JsLt(currentCount, maxCount)

withinCheckpoint2_Inclusive(isExhausted, currentCount, maxCount) ==
    ~isExhausted /\ ~JsLt(maxCount, currentCount)

withinCheckpoint2(isExhausted, currentCount, maxCount) ==
    ~isExhausted /\ JsLt(currentCount, maxCount)

\* JSON.parse(JSON.stringify(data)): a property whose value is undefined is dropped.
JSONRoundTrip(data) ==
    [k \in 1 .. Len(data) |->
        [data[k] EXCEPT !.reqChkTxnParams = IF @.present THEN @ ELSE NoParams]]

getPreference == prefs
setPreference_KeepsFirst(data) == prefs' = JSONRoundTrip(SubSeq(data, 1, 1))

setPreference(data) == prefs' = JSONRoundTrip(data)

PollReq(id, branch, parsed, idx, formattedTime, cl) ==
    [id |-> id, branch |-> branch, parsed |-> parsed, idx |-> idx,
     formattedTime |-> formattedTime, cl |-> cl]

CallNote(id, isExhausted, role, cp1, branch) ==
    [NoPoll EXCEPT !.step = "call", !.id = id, !.isExhausted = isExhausted,
                   !.role = role, !.reqChkTxnCheckPoint1 = cp1, !.branch = branch]

ResponseNote(p, resp) ==
    [NoPoll EXCEPT !.step = "response", !.id = p.id, !.branch = p.branch,
                   !.status = resp.status, !.reqChkTxnParams = resp.reqChkTxnParams,
                   !.respExhausted = resp.isReqChkTxnExhausted, !.respRole = resp.role]

refreshTranactionDetails_Twice(p) ==
    polls' = polls \cup {p, [p EXCEPT !.branch = "within"], [p EXCEPT !.branch = "after"]}

\* refreshTranactionDetails(transaction.id) is called: the poll waits for its response.
refreshTranactionDetails(p) == polls' = polls \cup {p}

handleSubsequentRefresh(id, isExhaustedArg, role, cp1, parsed, idx, age, cl) ==
    LET rec == parsed[idx]
        currentCount == rec.reqChkTxnParams.currentCount
        maxCount == rec.reqChkTxnParams.maxCount
        checkPoint2 == rec.reqChkTxnParams.checkPoint2
        isExhausted == rec.isReqChkTxnExhausted
        formattedTime == futureDate(rec.refreshedCreatedAt, checkPoint2)
    IN  IF ~rec.reqChkTxnParams.present
        THEN \* destructuring undefined throws; nothing catches it
             /\ lastPoll' = CallNote(id, isExhaustedArg, role, cp1, "throw")
             /\ lastSnacks' = <<>>
             /\ UNCHANGED polls
        ELSE IF pastCheckpoint2(isExhausted, age, checkPoint2)
        THEN /\ refreshTranactionDetails(PollReq(id, "after", parsed, idx, formattedTime, cl))
             /\ lastPoll' = CallNote(id, isExhaustedArg, role, cp1, "after")
             /\ lastSnacks' = <<>>
        ELSE IF withinCheckpoint2(isExhausted, currentCount, maxCount)
        THEN /\ refreshTranactionDetails(PollReq(id, "within", parsed, idx, formattedTime, cl))
             /\ lastPoll' = CallNote(id, isExhaustedArg, role, cp1, "within")
             /\ lastSnacks' = <<>>
        ELSE IF isExhausted
        THEN /\ lastPoll' = CallNote(id, isExhaustedArg, role, cp1, "record.exhausted")
             /\ lastSnacks' = <<Snack("error", "PENDING_STATUS_LIMT_EXCEEDED_DEFAULT", 0)>>
             /\ UNCHANGED polls
        ELSE /\ lastPoll' = CallNote(id, isExhaustedArg, role, cp1, "cooldown")
             /\ lastSnacks' =
                   <<Snack("info", "PENDING_STATUS_AFTER_SOME_TIME", formattedTime)>>
             /\ UNCHANGED polls

\* The call, up to its return or its status fetch.
fetchTransactionStatusDetails(id, isExhausted, role, reqChkTxnCheckPoint1) ==
    LET age == now - TxnCreatedAt(id)          \* secondsSinceCreated * 1000
        parsedReqChkTxnData == getPreference
        reqChkTxnParamsIndex == findIndex(parsedReqChkTxnData, id)
    IN  /\ lastOp' = "fetchTransactionStatusDetails"
        /\ IF isExhausted
           THEN /\ lastSnacks' = <<Snack("info", "PENDING_STATUS_LIMT_EXCEEDED_DEFAULT", 0)>>
                /\ lastPoll' = CallNote(id, isExhausted, role, reqChkTxnCheckPoint1,
                                        "exhausted")
                /\ UNCHANGED polls
           ELSE IF blockedWithinCheckpoint1(role, age, reqChkTxnCheckPoint1)
           THEN /\ lastSnacks' =
                      <<Snack("info", "PENDING_STATUS_BLOCK", reqChkTxnCheckPoint1)>>
                /\ lastPoll' = CallNote(id, isExhausted, role, reqChkTxnCheckPoint1,
                                        "blocked")
                /\ UNCHANGED polls
           ELSE IF reqChkTxnParamsIndex = 0
           THEN /\ refreshTranactionDetails(
                       PollReq(id, "first", parsedReqChkTxnData, 0, UNDEF, Closure))
                /\ lastPoll' = CallNote(id, isExhausted, role, reqChkTxnCheckPoint1,
                                        "first")
                /\ lastSnacks' = <<>>
           ELSE handleSubsequentRefresh(id, isExhausted, role, reqChkTxnCheckPoint1,
                                        parsedReqChkTxnData, reqChkTxnParamsIndex, age,
                                        Closure)
        /\ NoIssue
        /\ UNCHANGED <<impl, offset, filter, dateMode, lastUpdated,
                       errorOccuredDuringLastUpdate, transactionsObservableRef,
                       circleTransactionsObservableRef, paymentSubscriptionRef,
                       now, ticks, prefs>>

\* The notifications of the first refresh, in the order they are shown.
delegateInitiatedReturn(status, role, currentCount, maxCount) ==
    /\ status = "DELEGATE_INITIATED" /\ currentCount = NULL /\ maxCount = NULL
    /\ role \in {"PRIMARY", "SECONDARY"}

handleTransactionStatusMessages(status, isExhausted, role, formattedTime, currentCount, maxCount) ==
    IF delegateInitiatedReturn(status, role, currentCount, maxCount)
    THEN IF role = "PRIMARY"
         THEN <<Snack("error", "PENDING_TXN_DELEGATE_INITIATED_PRIMARY", 0)>>
         ELSE <<Snack("error", "PENDING_TXN_DELEGATE_INITIATED_SECONDARY", 0)>>
    ELSE (IF isExhausted /\ status # "SUCCESS"
          THEN <<Snack("error", "PENDING_STATUS_LIMT_EXCEEDED_DEFAULT", 0)>>
          ELSE <<>>)
         \o
         (IF ~isExhausted /\ isNonFinalStatus(status)
          THEN <<Snack("info", "PENDING_STATUS_WITHIN_TWO_HOURS", formattedTime)>>
          ELSE <<>>)
         \o
         (IF ~isExhausted /\ maxCount = currentCount /\ isNonFinalStatus(status)
          THEN <<Snack("error", "PENDING_STATUS_ATTEMPTS_EXCEEDED", formattedTime)>>
          ELSE <<>>)

\* The record the first refresh prepends.
NewRecord_NoExhausted(resp) ==
    [transactionId |-> resp.id,
     reqChkTxnParams |-> resp.reqChkTxnParams,
     isReqChkTxnExhausted |-> FALSE,
     refreshedCreatedAt |-> resp.createdAt]

NewRecord(resp) ==
    [transactionId |-> resp.id,
     reqChkTxnParams |-> resp.reqChkTxnParams,
     isReqChkTxnExhausted |-> resp.isReqChkTxnExhausted,
     refreshedCreatedAt |-> resp.createdAt]

UpdatedRecords_KeepsFlag(p, resp) ==
    [p.parsed EXCEPT ![p.idx] =
        [@ EXCEPT !.reqChkTxnParams = resp.reqChkTxnParams]]

\* parsedReqChkTxnData[reqChkTxnParamsIndex] overwritten with the fetched values.
UpdatedRecords(p, resp) ==
    [p.parsed EXCEPT ![p.idx] =
        [@ EXCEPT !.reqChkTxnParams = resp.reqChkTxnParams,
                  !.isReqChkTxnExhausted = resp.isReqChkTxnExhausted]]

NoForceUpdate ==
    /\ NoIssue
    /\ UNCHANGED <<offset, lastUpdated, errorOccuredDuringLastUpdate,
                   transactionsObservableRef, circleTransactionsObservableRef,
                   paymentSubscriptionRef>>

\* useTransactionStatusRefresh.handleFirstTimeRefresh: forceUpdate() follows the
\* messages whether or not handleTransactionStatusMessages returned early.
handleFirstTimeRefresh(p, resp) ==
    LET currentCount == resp.reqChkTxnParams.currentCount
        maxCount == resp.reqChkTxnParams.maxCount
        checkPoint2 == resp.reqChkTxnParams.checkPoint2
        formattedTime == futureDate(resp.createdAt, checkPoint2)
        data == <<NewRecord(resp)>> \o p.parsed
    IN  /\ IF currentCount # NULL /\ maxCount # NULL
           THEN setPreference(data)
           ELSE UNCHANGED prefs
        /\ lastSnacks' = handleTransactionStatusMessages(
                             resp.status, resp.isReqChkTxnExhausted, resp.role,
                             formattedTime, currentCount, maxCount)
        /\ ForceUpdate(p.cl)

\* useTransactions: the same branch inline; the delegate-initiated return leaves
\* the function before forceUpdate().
UT_handleFirstTimeRefresh(p, resp) ==
    LET currentCount == resp.reqChkTxnParams.currentCount
        maxCount == resp.reqChkTxnParams.maxCount
        checkPoint2 == resp.reqChkTxnParams.checkPoint2
        formattedTime == futureDate(resp.createdAt, checkPoint2)
        data == <<NewRecord(resp)>> \o p.parsed
    IN  /\ IF currentCount # NULL /\ maxCount # NULL
           THEN setPreference(data)
           ELSE UNCHANGED prefs
        /\ lastSnacks' = handleTransactionStatusMessages(
                             resp.status, resp.isReqChkTxnExhausted, resp.role,
                             formattedTime, currentCount, maxCount)
        /\ IF delegateInitiatedReturn(resp.status, resp.role, currentCount, maxCount)
           THEN NoForceUpdate
           ELSE ForceUpdate(p.cl)

handleAfterCheckpoint2Refresh_KeepsRecord(p, resp) ==
    LET isExhausted == resp.isReqChkTxnExhausted
    IN  /\ UNCHANGED prefs
        /\ lastSnacks' =
              (IF isExhausted /\ resp.status # "SUCCESS"
               THEN <<Snack("error", "PENDING_STATUS_LIMT_EXCEEDED_DEFAULT", 0)>>
               ELSE <<>>)
              \o
              (IF ~isExhausted /\ isNonFinalStatus(resp.status)
               THEN <<Snack("info", "PENDING_STATUS_AFTER_TWO_HOURS_ATTEMPTS", 0)>>
               ELSE <<>>)
        /\ ForceUpdate(p.cl)

handleAfterCheckpoint2Refresh(p, resp) ==
    LET isExhausted == resp.isReqChkTxnExhausted
    IN  /\ setPreference(UpdatedRecords(p, resp))
        /\ lastSnacks' =
              (IF isExhausted /\ resp.status # "SUCCESS"
               THEN <<Snack("error", "PENDING_STATUS_LIMT_EXCEEDED_DEFAULT", 0)>>
               ELSE <<>>)
              \o
              (IF ~isExhausted /\ isNonFinalStatus(resp.status)
               THEN <<Snack("info", "PENDING_STATUS_AFTER_TWO_HOURS_ATTEMPTS", 0)>>
               ELSE <<>>)
        /\ ForceUpdate(p.cl)

handleWithinCheckpoint2Refresh(p, resp) ==
    LET currentCount == resp.reqChkTxnParams.currentCount
        maxCount == resp.reqChkTxnParams.maxCount
    IN  /\ setPreference(UpdatedRecords(p, resp))
        /\ lastSnacks' =
              (IF maxCount = currentCount /\ isNonFinalStatus(resp.status)
               THEN <<Snack("error", "PENDING_STATUS_ATTEMPTS_EXCEEDED", p.formattedTime)>>
               ELSE <<>>)
              \o
              (IF maxCount # currentCount /\ isNonFinalStatus(resp.status)
               THEN <<Snack("info", "PENDING_STATUS_WITHIN_TWO_HOURS", p.formattedTime)>>
               ELSE <<>>)
        /\ ForceUpdate(p.cl)

\* refreshTranactionDetails resolves with resp: the suspended call runs to its end.
StatusResolved(p, resp) ==
    /\ p \in polls
    /\ polls' = polls \ {p}
    /\ lastOp' = "statusResolved"
    /\ lastPoll' = ResponseNote(p, resp)
    /\ IF p.branch = "first"
       THEN IF impl = "manager"
            THEN handleFirstTimeRefresh(p, resp)
            ELSE UT_handleFirstTimeRefresh(p, resp)
       ELSE IF p.branch = "after"
       THEN handleAfterCheckpoint2Refresh(p, resp)
       ELSE handleWithinCheckpoint2Refresh(p, resp)
    /\ UNCHANGED <<impl, filter, dateMode, now, ticks>>

\* refreshTranactionDetails rejects (validateResponse found response.error, or the
\* transport failed): every branch catches and shows SOMETHING_WRONG.
StatusRejected_Silent(p) ==
    /\ p \in polls
    /\ polls' = polls \ {p}
    /\ lastOp' = "statusRejected"
    /\ lastPoll' = [NoPoll EXCEPT !.step = "response", !.id = p.id,
                                  !.branch = p.branch, !.status = "reject"]
    /\ lastSnacks' = <<>>
    /\ NoForceUpdate
    /\ UNCHANGED <<impl, filter, dateMode, now, ticks, prefs>>

StatusRejected(p) ==
    /\ p \in polls
    /\ polls' = polls \ {p}
    /\ lastOp' = "statusRejected"
    /\ lastPoll' = [NoPoll EXCEPT !.step = "response", !.id = p.id,
                                  !.branch = p.branch, !.status = "reject"]
    /\ lastSnacks' = <<Snack("error", "SOMETHING_WRONG", 0)>>
    /\ NoForceUpdate
    /\ UNCHANGED <<impl, filter, dateMode, now, ticks, prefs>>

InitWith(fetches, clockSteps) ==
    /\ impl \in Impls
    /\ offset = 0
    /\ filter = "none"
    /\ dateMode = "none"
    /\ lastUpdated = NULL
    /\ errorOccuredDuringLastUpdate = FALSE
    /\ transactionsObservableRef = NoRef
    /\ circleTransactionsObservableRef = NoRef
    /\ paymentSubscriptionRef = NoClosure
    /\ inflight = {}
    /\ now = 0
    /\ ticks = clockSteps
    /\ budget = fetches
    /\ lastOp = "init"
    /\ lastReq = NoReq
    /\ prefs = <<>>
    /\ polls = {}
    /\ lastSnacks = <<>>
    /\ lastPoll = NoPoll
    /\ served = 0

MainOps ==
    \/ fetchTransactionsList /\ UNCHANGED pollVars
    \/ refetchTransactions /\ UNCHANGED pollVars
    \/ fetchMore /\ UNCHANGED pollVars
    \/ UT_fetchMore /\ UNCHANGED pollVars
    \/ initializeTransactionsObservable /\ UNCHANGED pollVars

CircleOps ==
    \/ fetchCircleTransactionList /\ UNCHANGED pollVars
    \/ refetchCircleTransactions /\ UNCHANGED pollVars
    \/ fetchMoreCircleTxns /\ UNCHANGED pollVars
    \/ UT_fetchMoreCircleTxns /\ UNCHANGED pollVars
    \/ initializeCircleTransactionsObservable /\ UNCHANGED pollVars

FilterOps ==
    \/ \E f \in Filters : applyFilter(f) /\ UNCHANGED pollVars
    \/ \E d \in DateModes : applyDateMode(d) /\ UNCHANGED pollVars
    \/ clearFilter /\ UNCHANGED pollVars
    \/ clearDateMode /\ UNCHANGED pollVars
    \/ clearFilterWithoutUpdate /\ UNCHANGED pollVars
    \/ clearFilterWithUpdate /\ UNCHANGED pollVars
    \/ filterforupiId /\ UNCHANGED pollVars
    \/ upiLitefilter /\ UNCHANGED pollVars

EventOps ==
    \/ subscribePaymentActions /\ UNCHANGED pollVars
    \/ \E a \in PaymentActions : PaymentEvent(a) /\ UNCHANGED pollVars

Responses ==
    \/ \E r \in inflight, error \in BOOLEAN, c \in Counts :
          onSuccess(r, error, c) /\ UNCHANGED pollVars
    \/ \E r \in inflight : onError(r) /\ UNCHANGED pollVars
    \/ \E r \in inflight, error \in BOOLEAN, c \in Counts :
          UT_onSuccess(r, error, c) /\ UNCHANGED pollVars
    \/ \E r \in inflight : UT_onErrorRejected(r) /\ UNCHANGED pollVars
    \/ \E r \in inflight, o \in {"ok", "error", "reject"}, c \in Counts :
          fetchMoreResume(r, o, c) /\ UNCHANGED pollVars

Clock == \E t \in Times : Tick(t) /\ UNCHANGED pollVars

\* Both lists of both implementations, the clock standing still.
Init == InitWith(MaxFetches, 0)
Next == MainOps \/ CircleOps \/ FilterOps \/ EventOps \/ Responses
Spec == Init /\ [][Next]_vars

\* The main list alone, the clock standing still.
InitMain == InitWith(MaxMainFetches, 0)
NextMain == MainOps \/ FilterOps \/ EventOps \/ Responses
SpecMain == InitMain /\ [][NextMain]_vars

\* The main list under a moving clock.
NextClock == Responses \/ Clock \/ MainOps
InitClock == InitWith(MaxFetches, MaxTicks)
SpecClock == InitClock /\ [][NextClock]_vars

\* The status-poll rate limiter, one call at a time, over the main list.
MaxPollFetches == 3    \* list requests issued in one behaviour of the poll
MaxPollTicks == 2      \* clock advances in one behaviour of the poll

\* Calls are serial: a call is made when no earlier call waits for its status fetch.
PollOps ==
    \/ \E id \in TxnIds, isExhausted \in BOOLEAN, role \in Roles, cp1 \in CheckPoint1s :
          polls = {} /\ fetchTransactionStatusDetails(id, isExhausted, role, cp1)
                     /\ UNCHANGED served
    \/ \E p \in polls : \E resp \in StatusResponses(p.id) :
          StatusResolved(p, resp) /\ UNCHANGED served
    \/ \E p \in polls : StatusRejected(p) /\ UNCHANGED served

PollClock ==
    \E t \in PollTimes : Tick(t) /\ lastSnacks' = <<>> /\ lastPoll' = NoPoll
                                 /\ UNCHANGED <<prefs, polls, served>>

ListResponses ==
    \/ \E r \in inflight :
          onSuccess(r, FALSE, pageSize) /\ lastSnacks' = <<>> /\ lastPoll' = NoPoll
                                 /\ UNCHANGED <<prefs, polls, served>>
    \/ \E r \in inflight :
          UT_onSuccess(r, FALSE, pageSize) /\ lastSnacks' = <<>> /\ lastPoll' = NoPoll
                                    /\ UNCHANGED <<prefs, polls, served>>

InitPoll == InitWith(MaxPollFetches, MaxPollTicks)
NextPoll == PollOps \/ PollClock \/ ListResponses
SpecPoll == InitPoll /\ [][NextPoll]_vars

\* The rate limiter over two transactions.  The first refresh of a transaction
\* is followed by later calls that find its record; the server answers with
\* numeric counters or null ones.
TxnIds2 == {1, 2}
StatusResponses2(id) ==
    {[id |-> id, status |-> st, reqChkTxnParams |-> pr, isReqChkTxnExhausted |-> ex,
      createdAt |-> TxnCreatedAt(id), role |-> "none"] :
        st \in {"PENDING", "SUCCESS"}, ex \in BOOLEAN,
        pr \in {NullParams,
                [present |-> TRUE, currentCount |-> 1, maxCount |-> 3, checkPoint2 |-> 7200],
                [present |-> TRUE, currentCount |-> 2, maxCount |-> 3, checkPoint2 |-> 7200]}}

PollReturns ==
    \/ \E p \in polls : \E resp \in StatusResponses2(p.id) :
          StatusResolved(p, resp) /\ UNCHANGED served
    \/ \E p \in polls : StatusRejected(p) /\ UNCHANGED served

\* Calls are serial: one call at a time, whatever the transaction.
SerialCalls ==
    \E id \in TxnIds2, role \in {"PRIMARY", "none"}, cp1 \in CheckPoint1s :
        polls = {} /\ fetchTransactionStatusDetails(id, FALSE, role, cp1)
                   /\ UNCHANGED served

NextPollSerial == SerialCalls \/ PollReturns \/ PollClock \/ ListResponses
SpecPollSerial == InitPoll /\ [][NextPollSerial]_vars

\* Calls are serial per transaction: a call for one transaction may be made
\* while a call for the other waits for its status fetch.
CallsPerTransaction ==
    \E id \in TxnIds2, role \in {"PRIMARY", "none"}, cp1 \in CheckPoint1s :
        /\ \A p \in polls : p.id # id
        /\ fetchTransactionStatusDetails(id, FALSE, role, cp1)
        /\ UNCHANGED served

NextPollPair == CallsPerTransaction \/ PollReturns \/ PollClock \/ ListResponses
SpecPollPair == InitPoll /\ [][NextPollPair]_vars

\* The rate limiter against a server that counts: every status fetch started
\* for the transaction raises the server's currentCount by one, and a fetch
\* that returns reports that count with a fixed maxCount and checkPoint2.
MaxServed == 4         \* status fetches started in one behaviour
ServerMaxCount == 2
ServerCheckPoint2 == 7200
CountedResponses(id) ==
    {[id |-> id, status |-> st,
      reqChkTxnParams |-> [present |-> TRUE, currentCount |-> served,
                           maxCount |-> ServerMaxCount, checkPoint2 |-> ServerCheckPoint2],
      isReqChkTxnExhausted |-> ex, createdAt |-> TxnCreatedAt(id), role |-> "none"] :
        st \in {"PENDING", "SUCCESS"}, ex \in BOOLEAN}

CountedCalls ==
    \E id \in TxnIds, role \in {"PRIMARY", "none"}, cp1 \in CheckPoint1s :
        /\ polls = {}
        /\ fetchTransactionStatusDetails(id, FALSE, role, cp1)
        /\ polls' # polls => served < MaxServed
        /\ served' = IF polls' # polls THEN served + 1 ELSE served

CountedReturns ==
    \/ \E p \in polls : \E resp \in CountedResponses(p.id) :
          StatusResolved(p, resp) /\ UNCHANGED served
    \/ \E p \in polls : StatusRejected(p) /\ UNCHANGED served

NextPollCounted == CountedCalls \/ CountedReturns \/ PollClock \/ ListResponses
SpecPollCounted == InitPoll /\ [][NextPollCounted]_vars

\* The time formatter alone: a call formats the time its notification names.
FormatTime ==
    /\ lastOp = "init"
    /\ lastOp' = "formatTime12Hr"
    /\ lastSnacks' = <<Snack("info", "PENDING_STATUS_AFTER_SOME_TIME", formatTime12Hr(now))>>
    /\ UNCHANGED <<impl, offset, filter, dateMode, lastUpdated,
                   errorOccuredDuringLastUpdate, transactionsObservableRef,
                   circleTransactionsObservableRef, paymentSubscriptionRef, inflight,
                   now, ticks, budget, lastReq, prefs, polls, lastPoll, served>>

InitFormat ==
    /\ impl \in Impls
    /\ offset = 0
    /\ filter = "none"
    /\ dateMode = "none"
    /\ lastUpdated = NULL
    /\ errorOccuredDuringLastUpdate = FALSE
    /\ transactionsObservableRef = NoRef
    /\ circleTransactionsObservableRef = NoRef
    /\ paymentSubscriptionRef = NoClosure
    /\ inflight = {}
    /\ now \in {DateAt(h, m) : h \in Hours, m \in Minutes}
    /\ ticks = 0
    /\ budget = 0
    /\ lastOp = "init"
    /\ lastReq = NoReq
    /\ prefs = <<>>
    /\ polls = {}
    /\ lastSnacks = <<>>
    /\ lastPoll = NoPoll
    /\ served = 0

NextFormat == FormatTime
SpecFormat == InitFormat /\ [][NextFormat]_vars

----------------------------------------------------------------------------
(* Claims about the lists.                                                 *)
MainList == transactionsObservableRef
ListOf(r) == IF r.list = "main" THEN transactionsObservableRef
             ELSE circleTransactionsObservableRef
Resolved(ref) == ref.tag = "data" /\ ~ref.showShimmer

\* C1: starting from a resolved first page (offset 0), the main list is the
\* in-order concatenation of the pages at offsets 0, 20, 40, ...: no page is
\* appended twice and none is skipped.
C1_LoadMoreConcatenates ==
    (Resolved(MainList) /\ MainList.pages[1] = 0) =>
        \A k \in 1 .. Len(MainList.pages) : MainList.pages[k] = (k - 1) * pageSize

\* C2: a page published by a first-page fetch or by a load-more has hasNext
\* equal to (offset of its request + 20 < count of its response).
C2_HasNextMatchesRequest ==
    lastOp \in {"onSuccess", "fetchMore.ok"} =>
        /\ Resolved(ListOf(lastReq))
        /\ ListOf(lastReq).hasNext = (lastReq.offset + 20 < ListOf(lastReq).count)
        /\ ~ListOf(lastReq).hasNext = (lastReq.offset + 20 >= ListOf(lastReq).count)

\* C2 witness: the page at offset 20 of 45 has been appended and has a next page.
C2_Witness ==
    /\ lastOp = "fetchMore.ok"
    /\ lastReq.offset = 20
    /\ MainList.count = 45
    /\ MainList.hasNext

FilterChangeOps ==
    {"applyFilter", "applyDateMode", "clearFilter", "clearDateMode",
     "clearFilterWithUpdate", "clearFilterWithoutUpdate", "filterforupiId",
     "upiLitefilter"}

\* C3: a change of filter or dateMode resets the cursor to 0, discards the
\* accumulated items and issues the next fetch with the new filter.
C3_FilterChangeRefetches ==
    lastOp \in FilterChangeOps =>
        /\ offset = 0
        /\ MainList.transactions = <<>>
        /\ lastReq.list = "main" /\ lastReq.kind = "first" /\ lastReq.offset = 0
        /\ lastReq.filter = filter

\* C4: shouldUpdate is true exactly when the main list was never loaded (and
\* is not being loaded), its last fetch result was an error, or
\* now - lastUpdated >= 1800 s.
NeverLoaded ==
    \/ MainList.tag = "null"
    \/ MainList.tag = "unresolved" /\ ~\E r \in inflight : r.list = "main"

C4_ShouldRefreshIff ==
    shouldUpdate <=>
        \/ NeverLoaded
        \/ MainList.tag = "error"
        \/ lastUpdated # NULL /\ now - lastUpdated >= 1800 * 1000

\* C5: while no fetch is in flight, a recognized payment event delivered to
\* the subscription runs forceUpdate once: the cursor is reset to 0 and
\* exactly one first-page fetch of the main list is issued.
C5_PaymentEventRefreshesOnce ==
    [][(lastOp' = "paymentEvent" /\ inflight = {}) =>
          /\ offset' = 0
          /\ budget' = budget - 1
          /\ Cardinality(inflight') = 1
          /\ \A r \in inflight' :
                r.list = "main" /\ r.kind = "first" /\ r.offset = 0]_vars

\* C5 witness: an event arrived over a loaded, idle list: one fetch is in flight.
C5_Witness ==
    /\ lastOp = "paymentEvent"
    /\ Cardinality(inflight) = 1
    /\ offset = 0
    /\ MainList.tag = "data" /\ MainList.showShimmer

----------------------------------------------------------------------------
(* Claims about the status poll.                                           *)
AgeMs(id) == now - TxnCreatedAt(id)
HasRecord(data, id) == findIndex(data, id) # 0
RecordOf(data, id) == data[findIndex(data, id)]
SnackKeys(snacks) == {snacks[k].key : k \in 1 .. Len(snacks)}
TerminalStatuses == {"SUCCESS", "DECLINED", "EXPIRED"}
ListUntouched ==
    /\ transactionsObservableRef' = transactionsObservableRef
    /\ circleTransactionsObservableRef' = circleTransactionsObservableRef
    /\ inflight' = inflight
    /\ offset' = offset
PollCalled == lastOp' = "fetchTransactionStatusDetails"
StatusReturned == lastOp' = "statusResolved"

\* C6 (as amended): a call for a transaction whose exhausted flag is not set,
\* whose payer role is neither PRIMARY nor SECONDARY and whose age is at most
\* checkpoint1 shows exactly the PENDING_STATUS_BLOCK info carrying the
\* checkpoint1 value, starts no status fetch, and leaves the persisted records
\* and the list cache as they were.
C6_BlockedWithinCheckpoint1 ==
    [][(/\ PollCalled
        /\ ~lastPoll'.isExhausted
        /\ lastPoll'.role \notin {"PRIMARY", "SECONDARY"}
        /\ AgeMs(lastPoll'.id) <= lastPoll'.reqChkTxnCheckPoint1 * 1000)
       => /\ lastSnacks' = <<Snack("info", "PENDING_STATUS_BLOCK",
                                   lastPoll'.reqChkTxnCheckPoint1)>>
          /\ polls' = polls
          /\ prefs' = prefs
          /\ ListUntouched]_vars

\* C6 witness: a blocked call has just returned, at an age of 60 s.
C6_Witness ==
    /\ lastPoll.step = "call" /\ lastPoll.branch = "blocked"
    /\ now = 60000
    /\ lastSnacks = <<Snack("info", "PENDING_STATUS_BLOCK", 120)>>

\* C6 as stated, without the condition on the exhausted flag: every call with a
\* role that is neither PRIMARY nor SECONDARY at an age of at most checkpoint1 is
\* answered with PENDING_STATUS_BLOCK.
C6_Original ==
    [][(/\ PollCalled
        /\ lastPoll'.role \notin {"PRIMARY", "SECONDARY"}
        /\ AgeMs(lastPoll'.id) <= lastPoll'.reqChkTxnCheckPoint1 * 1000)
       => /\ lastSnacks' = <<Snack("info", "PENDING_STATUS_BLOCK",
                                   lastPoll'.reqChkTxnCheckPoint1)>>
          /\ polls' = polls
          /\ prefs' = prefs
          /\ ListUntouched]_vars

\* C7 (as amended): a call for a non-exhausted transaction with no persisted
\* record and an age above checkpoint1 starts exactly one status fetch and writes
\* nothing; when that fetch succeeds with currentCount and maxCount not null, the
\* persisted list gains a record for the transaction id holding the returned
\* counters, exhausted flag and creation time, and no second fetch is started.
C7_FirstRefreshCreatesRecord ==
    [][/\ (/\ PollCalled
           /\ ~lastPoll'.isExhausted
           /\ ~HasRecord(prefs, lastPoll'.id)
           /\ AgeMs(lastPoll'.id) > lastPoll'.reqChkTxnCheckPoint1 * 1000)
          => /\ polls \subseteq polls'
             /\ Cardinality(polls' \ polls) = 1
             /\ \A p \in polls' \ polls : p.id = lastPoll'.id /\ p.branch = "first"
             /\ prefs' = prefs
       /\ (/\ StatusReturned
           /\ lastPoll'.branch = "first"
           /\ lastPoll'.reqChkTxnParams.currentCount # NULL
           /\ lastPoll'.reqChkTxnParams.maxCount # NULL)
          => /\ HasRecord(prefs', lastPoll'.id)
             /\ RecordOf(prefs', lastPoll'.id) =
                   [transactionId |-> lastPoll'.id,
                    reqChkTxnParams |-> lastPoll'.reqChkTxnParams,
                    isReqChkTxnExhausted |-> lastPoll'.respExhausted,
                    refreshedCreatedAt |-> TxnCreatedAt(lastPoll'.id)]
             /\ polls' \subseteq polls]_vars

\* C7 witness: the first refresh at an age of 130 s has persisted a record with
\* the returned counters 1/3.
C7_Witness ==
    /\ lastPoll.step = "response" /\ lastPoll.branch = "first"
    /\ now = 130000
    /\ HasRecord(prefs, lastPoll.id)
    /\ RecordOf(prefs, lastPoll.id).reqChkTxnParams.currentCount = 1
    /\ RecordOf(prefs, lastPoll.id).reqChkTxnParams.maxCount = 3
    /\ RecordOf(prefs, lastPoll.id).isReqChkTxnExhausted = lastPoll.respExhausted

\* C7 as stated: every successful first status fetch leaves a persisted record
\* for the transaction id.
C7_Original ==
    [][(StatusReturned /\ lastPoll'.branch = "first")
       => HasRecord(prefs', lastPoll'.id)]_vars

\* C8: a call for a transaction whose exhausted flag is set, or whose persisted
\* record has exhausted = true, starts no status fetch and leaves the persisted
\* list as it was, however often it is repeated.
C8_ExhaustedIsIdempotent ==
    [][(/\ PollCalled
        /\ \/ lastPoll'.isExhausted
           \/ /\ HasRecord(prefs, lastPoll'.id)
              /\ RecordOf(prefs, lastPoll'.id).isReqChkTxnExhausted)
       => /\ polls' = polls
          /\ prefs' = prefs]_vars

\* C8 witness: a call found its persisted record exhausted, two hours or more
\* after the transaction was created.
C8_Witness ==
    /\ lastPoll.step = "call" /\ lastPoll.branch = "record.exhausted"
    /\ ~lastPoll.isExhausted
    /\ now >= 7200000
    /\ polls = {}

C10_LimitExceededUniform ==
    [][(/\ StatusReturned
        /\ lastPoll'.respExhausted
        /\ lastPoll'.status # "SUCCESS"
        /\ ~delegateInitiatedReturn(lastPoll'.status, lastPoll'.respRole,
                                    lastPoll'.reqChkTxnParams.currentCount,
                                    lastPoll'.reqChkTxnParams.maxCount))
       => "PENDING_STATUS_LIMT_EXCEEDED_DEFAULT" \in SnackKeys(lastSnacks')]_vars

NumericCounters(rec) ==
    rec.reqChkTxnParams.present /\ rec.reqChkTxnParams.currentCount >= 0
                                /\ rec.reqChkTxnParams.maxCount >= 0

C12_CountersMonotoneAndBounded ==
    [][\A id \in TxnIds :
          (HasRecord(prefs', id) /\ NumericCounters(RecordOf(prefs', id)))
          => /\ RecordOf(prefs', id).reqChkTxnParams.currentCount
                   <= RecordOf(prefs', id).reqChkTxnParams.maxCount
             /\ (HasRecord(prefs, id) /\ NumericCounters(RecordOf(prefs, id)))
                => RecordOf(prefs, id).reqChkTxnParams.currentCount
                      <= RecordOf(prefs', id).reqChkTxnParams.currentCount]_vars

\* C13: a status fetch that fails, in the first-refresh, past-checkpoint2 or
\* within-checkpoint2 branch, shows exactly the SOMETHING_WRONG error and leaves
\* the persisted list as it was; the persisted list changes only in a step in
\* which a status fetch succeeded.
C13_FetchFailureLeavesRecords ==
    [][/\ (lastOp' = "statusRejected")
          => /\ lastSnacks' = <<Snack("error", "SOMETHING_WRONG", 0)>>
             /\ prefs' = prefs
             /\ polls' \subseteq polls
       /\ (prefs' # prefs) => StatusReturned]_vars

\* C13 witness: the fetch of the within-checkpoint2 branch failed over an
\* existing record.
C13_Witness ==
    /\ lastOp = "statusRejected"
    /\ lastPoll.branch = "within"
    /\ HasRecord(prefs, lastPoll.id)
    /\ lastSnacks = <<Snack("error", "SOMETHING_WRONG", 0)>>

\* C14: every successful status fetch, in whichever branch and the
\* delegate-initiated return included, runs forceUpdate once: the step issues
\* exactly one first-page request of the main list.
C14_SuccessfulFetchRefreshesList ==
    [][StatusReturned
       => /\ budget' = budget - 1
          /\ inflight' = inflight \cup {lastReq'}
          /\ lastReq' \notin inflight
          /\ lastReq'.list = "main" /\ lastReq'.kind = "first"]_vars

----------------------------------------------------------------------------
(* Claims about concurrent and failing list fetches.                       *)
\* A list is Loading while a request for it is outstanding or it shows the
\* unresolved value or the shimmer a forceUpdate published.
InFlightFor(list) == {r \in inflight : r.list = list}
Loading(list, ref) ==
    \/ InFlightFor(list) # {}
    \/ ref.tag = "unresolved"
    \/ ref.tag = "data" /\ ref.showShimmer

\* C15: a load-more called while the main list is Loading is a no-op: it
\* issues no request, leaves the cursor offset where it was and publishes
\* nothing.
C15_LoadMoreWhileLoadingIsNoOp ==
    [][(lastOp' = "fetchMore" /\ Loading("main", MainList)) =>
          /\ inflight' = inflight
          /\ budget' = budget
          /\ offset' = offset
          /\ transactionsObservableRef' = transactionsObservableRef]_vars

\* C16: a forceUpdate called while a fetch of the same list is outstanding
\* is held back until that fetch settles: each list has at most one fetch in
\* flight, so responses cannot be applied out of the order of their requests.
C16_OneFetchPerListInFlight ==
    /\ Cardinality(InFlightFor("main")) <= 1
    /\ Cardinality(InFlightFor("circle")) <= 1

ResponseOps == {"onSuccess", "onSuccess.error", "onError", "fetchMore.ok", "fetchMore.failed"}

\* The request was issued under a filter that is no longer the active one.
FilterStale(r) == r.list = "main" /\ r.filter # filter

\* The cursor the load-more advanced to is no longer the active one.  The
\* manager requests the page at the advanced cursor, the combined hook the
\* page at the cursor of its closure, one page before it.
CursorAtIssue(r) == IF impl = "manager" THEN r.offset ELSE r.offset + pageSize
CursorStale(r) == r.kind = "more" /\ offset # CursorAtIssue(r)

\* C17: a response whose originating filter or cursor no longer matches the
\* active one is discarded: nothing is published from it, so a load-more
\* response that arrives after a later forceUpdate does not replace the
\* fresh first page by the items accumulated before.
C17_StaleResponseDiscarded ==
    [][(lastOp' \in ResponseOps /\ (FilterStale(lastReq') \/ CursorStale(lastReq'))) =>
          /\ transactionsObservableRef' = transactionsObservableRef
          /\ circleTransactionsObservableRef' = circleTransactionsObservableRef]_vars

FailedOps == {"onSuccess.error", "onError", "fetchMore.failed"}

\* C18: whenever a list has just become Failed (an error response or a
\* rejection of a first-page fetch, or an error of a load-more), the
\* error-tracking flag is set, so that the next getList of that list finds
\* it due and issues a new first-page fetch.
C18_FailureSetsErrorFlag ==
    (lastOp \in FailedOps /\ ListOf(lastReq).tag = "error") =>
        /\ errorOccuredDuringLastUpdate
        /\ IF lastReq.list = "main" THEN shouldUpdate ELSE shouldUpdateCircleHistory

CircleOpNames ==
    {"fetchCircleTransactionList", "refetchCircleTransactions", "fetchMoreCircleTxns",
     "initializeCircleTransactionsObservable"}
MainOpNames ==
    {"fetchTransactionsList", "refetchTransactions", "fetchMore",
     "initializeTransactionsObservable", "paymentEvent"} \cup FilterChangeOps

\* The step is an operation on the given list, or the response of one.
StepOn(list) ==
    \/ lastOp' \in (IF list = "main" THEN MainOpNames ELSE CircleOpNames)
    \/ lastOp' \in ResponseOps /\ lastReq'.list = list

\* C19: the two lists are independent: an operation on the circle list
\* leaves the main list's cursor offset, fetch time, error flag and
\* published value unchanged, and an operation on the main list leaves the
\* published value of the circle list unchanged.
C19_ListsIndependent ==
    [][/\ StepOn("circle") =>
             /\ offset' = offset
             /\ lastUpdated' = lastUpdated
             /\ errorOccuredDuringLastUpdate' = errorOccuredDuringLastUpdate
             /\ transactionsObservableRef' = transactionsObservableRef
       /\ StepOn("main") =>
             circleTransactionsObservableRef' = circleTransactionsObservableRef]_vars

\* C20: the time the TTL is measured from is that of the most recent
\* successful fetch, first page or load-more: when the only fetch issued so
\* far has failed there is still no fetch time, and a successful load-more
\* leaves the fetch time advanced or equal to the present time.
C20_TimestampOfLastSuccess ==
    [][/\ (lastOp' \in {"onSuccess.error", "onError"}
             /\ budget' = MaxFetches - 1 /\ inflight' = {})
          => lastUpdated' = NULL
       /\ (lastOp' = "fetchMore.ok")
          => (lastUpdated' > lastUpdated \/ lastUpdated' = now')]_vars

----------------------------------------------------------------------------
(* Claims about what a list publishes and when it fetches.                 *)
NoICDPending(ref) ==
    \A k \in 1 .. Len(ref.transactions) :
        ~isICDCashDepositPendingTransaction(Txn(ref.transactions[k]))

\* C21: no transaction satisfying isICDCashDepositPendingTransaction is in
\* a Resolved page of either list, whether the page came from a first-page
\* fetch or from a load-more.
C21_NoICDPendingPublished ==
    /\ Resolved(transactionsObservableRef) => NoICDPending(transactionsObservableRef)
    /\ Resolved(circleTransactionsObservableRef) =>
          NoICDPending(circleTransactionsObservableRef)

\* C21 witness: the pages at offsets 0 and 20 were fetched, a first page and
\* a load-more, and the server's transactions 5, 21 and 37 were left out.
C21_Witness ==
    /\ lastOp = "fetchMore.ok"
    /\ Resolved(MainList)
    /\ MainList.pages = <<0, 20>>
    /\ MainList.count = 45
    /\ Len(MainList.transactions) = 37

\* C22: a successful fetch at offset 0 replaces the list entirely: the
\* published items are exactly the filtered items of the response, count
\* and hasNext are those of the response, and nothing of the value the list
\* held before is kept.
C22_FirstPageReplacesCache ==
    [][(lastOp' = "onSuccess" /\ lastReq'.offset = 0) =>
          LET r == lastReq'
              new == IF r.list = "main" THEN transactionsObservableRef'
                     ELSE circleTransactionsObservableRef'
          IN /\ new.tag = "data" /\ ~new.showShimmer
             /\ new.transactions =
                   filterICDPendingTransactions(ServerPage(r.filter, pageSize, 0, new.count))
             /\ new.hasNext = hasNextPage(new.count, 0)
             /\ new.pages = <<0>>]_vars

\* C22 witness: the third fetch of the main list, a first page of a server
\* holding 20 transactions, has replaced what the two fetches before it
\* had published.
C22_Witness ==
    /\ lastOp = "onSuccess"
    /\ lastReq.list = "main" /\ lastReq.offset = 0
    /\ inflight = {} /\ budget = 0
    /\ Resolved(MainList)
    /\ MainList.count = 20 /\ Len(MainList.transactions) = 19 /\ ~MainList.hasNext

\* A list is fresh when it was loaded, the value it holds is not an error
\* and the fetch time is less than 30 minutes old; it is due when it was
\* never created, holds an error, or was loaded and has expired.
FreshList(ref) == Resolved(ref) /\ lastUpdated # NULL /\ now - lastUpdated < duration
DueList(ref) ==
    \/ ref.tag = "null"
    \/ ref.tag = "error"
    \/ Resolved(ref) /\ (lastUpdated = NULL \/ now - lastUpdated >= duration)

GetListStep(op, list, ref) ==
    lastOp' = op =>
        /\ FreshList(ref) =>
              /\ inflight' = inflight /\ budget' = budget
              /\ transactionsObservableRef' = transactionsObservableRef
              /\ circleTransactionsObservableRef' = circleTransactionsObservableRef
              /\ offset' = offset /\ lastUpdated' = lastUpdated
        /\ DueList(ref) =>
              /\ budget' = budget - 1
              /\ lastReq' \notin inflight /\ inflight' = inflight \cup {lastReq'}
              /\ lastReq'.list = list /\ lastReq'.kind = "first" /\ lastReq'.offset = 0

\* C23: getList refreshes only when due: on a fresh list it issues no
\* fetch, publishes nothing and leaves cursor and fetch time unchanged; on
\* a due list it issues exactly one first-page fetch at offset 0.
C23_GetListRefreshesIffDue ==
    [][/\ GetListStep("fetchTransactionsList", "main", transactionsObservableRef)
       /\ GetListStep("fetchCircleTransactionList", "circle",
                      circleTransactionsObservableRef)]_vars

\* C24: subscribing while a subscription is active is a no-op: the active
\* subscription, with the forceUpdate it delivers events to, stays the one
\* it was.
C24_ResubscribeIsNoOp ==
    [][paymentSubscriptionRef # NoClosure =>
          paymentSubscriptionRef' = paymentSubscriptionRef]_vars

\* C25: a failed list fetch is not retried automatically: the step that
\* publishes the failure issues no request, and every request is issued by
\* an operation of the caller or by a payment event.
C25_NoAutomaticRetry ==
    [][/\ lastOp' \in FailedOps =>
             /\ inflight' = inflight \ {lastReq'}
             /\ budget' = budget
       /\ budget' # budget => lastOp' \in MainOpNames \cup CircleOpNames]_vars

\* C25 witness: a first-page fetch was rejected, the list holds the error
\* and no request is outstanding.
C25_Witness ==
    /\ lastOp = "onError"
    /\ ListOf(lastReq).tag = "error"
    /\ inflight = {}
    /\ budget > 0

RefreshOpNames ==
    {"fetchTransactionsList", "refetchTransactions", "fetchCircleTransactionList",
     "refetchCircleTransactions"}

\* C26: the payment-event subscription is established lazily: once a
\* getList or a refresh has run forceUpdate, a subscription is active
\* without any call of subscribePaymentActions by the caller, so that a
\* recognized payment event is delivered to forceUpdate.
C26_SubscribedOnFirstUse ==
    [][(lastOp' \in RefreshOpNames /\ budget' < budget) =>
          paymentSubscriptionRef' # NoClosure]_vars

----------------------------------------------------------------------------
(* Claims about the branches of a call that finds a persisted record.      *)
\* The call of this step passes the guards that precede the look-up of the
\* record: the transaction's own exhausted flag and the checkpoint1 block.
CallReachesRecord ==
    /\ PollCalled
    /\ ~lastPoll'.isExhausted
    /\ ~blockedWithinCheckpoint1(lastPoll'.role, AgeMs(lastPoll'.id),
                                 lastPoll'.reqChkTxnCheckPoint1)
    /\ HasRecord(prefs, lastPoll'.id)
    /\ RecordOf(prefs, lastPoll'.id).reqChkTxnParams.present

\* The persisted record is not exhausted and the transaction is checkPoint2
\* seconds old or older.
RecordedPastCheckpoint2(id) ==
    /\ ~RecordOf(prefs, id).isReqChkTxnExhausted
    /\ AgeMs(id) >= ToNumber(RecordOf(prefs, id).reqChkTxnParams.checkPoint2) * 1000

\* The response of this step has overwritten the record's counters and flag.
RecordOverwritten ==
    /\ HasRecord(prefs', lastPoll'.id)
    /\ RecordOf(prefs', lastPoll'.id).reqChkTxnParams = lastPoll'.reqChkTxnParams
    /\ RecordOf(prefs', lastPoll'.id).isReqChkTxnExhausted = lastPoll'.respExhausted
    /\ Len(prefs') = Len(prefs)

\* C27 (as amended): with a persisted record that is not exhausted and an
\* age of checkPoint2 or more, a call starts exactly one status fetch; its
\* response overwrites the record's counters and exhausted flag, and
\* PENDING_STATUS_AFTER_TWO_HOURS_ATTEMPTS is shown exactly when the fetched
\* status is non-terminal and the fetched exhausted flag is false.
C27_PastCheckpoint2Fetches ==
    [][/\ (CallReachesRecord /\ RecordedPastCheckpoint2(lastPoll'.id))
          => /\ lastPoll'.branch = "after"
             /\ polls = {} /\ Cardinality(polls') = 1
             /\ prefs' = prefs
       /\ (StatusReturned /\ lastPoll'.branch = "after")
          => /\ polls' = {}
             /\ RecordOverwritten
             /\ ("PENDING_STATUS_AFTER_TWO_HOURS_ATTEMPTS" \in SnackKeys(lastSnacks'))
                   <=> (lastPoll'.status \notin TerminalStatuses
                        /\ ~lastPoll'.respExhausted)]_vars

\* C27 witness: past checkpoint2 a fetch returned a pending status, not
\* exhausted, with counters 2 of 3, which are now the record's.
C27_Witness ==
    /\ lastPoll.step = "response" /\ lastPoll.branch = "after"
    /\ lastPoll.status = "PENDING" /\ ~lastPoll.respExhausted
    /\ now >= 7200000
    /\ HasRecord(prefs, lastPoll.id)
    /\ RecordOf(prefs, lastPoll.id).reqChkTxnParams.currentCount = 2
    /\ SnackKeys(lastSnacks) = {"PENDING_STATUS_AFTER_TWO_HOURS_ATTEMPTS"}

\* C27 as stated: the response of the fetch made past checkpoint2 overwrites
\* the record and, when the fetched status is non-terminal, is classified
\* with PENDING_STATUS_AFTER_TWO_HOURS_ATTEMPTS.
C27_Original ==
    [][(StatusReturned /\ lastPoll'.branch = "after")
          => /\ RecordOverwritten
             /\ lastPoll'.status \notin TerminalStatuses
                   => "PENDING_STATUS_AFTER_TWO_HOURS_ATTEMPTS" \in SnackKeys(lastSnacks')]_vars

\* The persisted record is not exhausted, the transaction is younger than
\* checkPoint2 seconds and the persisted currentCount is below maxCount.
RecordedWithinCheckpoint2(id) ==
    /\ ~RecordOf(prefs, id).isReqChkTxnExhausted
    /\ AgeMs(id) < ToNumber(RecordOf(prefs, id).reqChkTxnParams.checkPoint2) * 1000
    /\ JsLt(RecordOf(prefs, id).reqChkTxnParams.currentCount,
            RecordOf(prefs, id).reqChkTxnParams.maxCount)

LimitExceededError == <<Snack("error", "PENDING_STATUS_LIMT_EXCEEDED_DEFAULT", 0)>>

\* The persisted counters are equal numbers.
CountersEqual(rec) ==
    /\ rec.reqChkTxnParams.currentCount >= 0
    /\ rec.reqChkTxnParams.currentCount = rec.reqChkTxnParams.maxCount

----------------------------------------------------------------------------
(* Claims about the outcome of a status fetch and the persisted list.      *)
\* C31: when a status fetch returns a delegate-initiated status with null
\* currentCount and maxCount to a PRIMARY or SECONDARY payer, the one
\* notification shown is the one of that role, and no record is created
\* for the transaction.
C31_DelegateInitiatedOutcome ==
    [][(/\ StatusReturned
        /\ delegateInitiatedReturn(lastPoll'.status, lastPoll'.respRole,
                                   lastPoll'.reqChkTxnParams.currentCount,
                                   lastPoll'.reqChkTxnParams.maxCount))
       => /\ lastSnacks' =
                <<Snack("error",
                        IF lastPoll'.respRole = "PRIMARY"
                        THEN "PENDING_TXN_DELEGATE_INITIATED_PRIMARY"
                        ELSE "PENDING_TXN_DELEGATE_INITIATED_SECONDARY", 0)>>
          /\ ~HasRecord(prefs, lastPoll'.id) => ~HasRecord(prefs', lastPoll'.id)]_vars

\* A forceUpdate of the given list runs in this step: it issues the
\* first-page request lastReq'.
ForceUpdateStep(list) ==
    /\ budget' = budget - 1
    /\ lastReq' \notin inflight
    /\ lastReq'.kind = "first" /\ lastReq'.list = list

ShimmerKeepsTotals(old, new) ==
    /\ new.tag = "data" /\ new.showShimmer
    /\ ~new.hasNext
    /\ new.transactions = <<>>
    /\ Resolved(old) => new.count = old.count

\* C32: a forceUpdate of a list that already holds a value publishes,
\* together with issuing the request, a shimmer page with hasNext = false
\* and no items, and that page keeps the count the list had.
C32_ShimmerBeforeFetch ==
    [][/\ (ForceUpdateStep("main") /\ transactionsObservableRef.tag # "null")
          => ShimmerKeepsTotals(transactionsObservableRef, transactionsObservableRef')
       /\ (ForceUpdateStep("circle") /\ circleTransactionsObservableRef.tag # "null")
          => ShimmerKeepsTotals(circleTransactionsObservableRef,
                                circleTransactionsObservableRef')]_vars

\* C33: a persisted record is never removed: under serial calls for any
\* transactions, every transaction that has a record before a step has one
\* after it, and the list does not get shorter.
C33_RecordsNeverRemoved ==
    [][/\ \A id \in TxnIds2 : HasRecord(prefs, id) => HasRecord(prefs', id)
       /\ Len(prefs') >= Len(prefs)]_vars

\* C33 witness: with the records of both transactions persisted, a later
\* fetch for transaction 1, whose record is the second of the list, has
\* returned 2 of 3 and both records are there.
C33_Witness ==
    /\ lastPoll.step = "response" /\ lastPoll.id = 1 /\ lastPoll.branch = "within"
    /\ Len(prefs) = 2
    /\ prefs[1].transactionId = 2 /\ prefs[2].transactionId = 1
    /\ prefs[2].reqChkTxnParams.currentCount = 2

----------------------------------------------------------------------------
(* Claims about the time formatter.                                        *)
Formatted == lastSnacks[1].arg

\* C34: for every hour 0..23 and minute 0..59, formatTime12Hr displays 12
\* for the hours 0 and 12 and the hour mod 12 for every other hour, displays
\* the minute as two digits (zero-padded below 10), and has the suffix PM
\* exactly when the hour is 12 or more, AM otherwise.
C34_FormatTime12Hr ==
    lastOp = "formatTime12Hr" =>
        LET h == getHours(now)
            m == getMinutes(now)
        IN  /\ h \in Hours /\ m \in Minutes
            /\ Formatted.hours = (IF h \in {0, 12} THEN <<1, 2>>
                                  ELSE IF h % 12 < 10 THEN <<h % 12>>
                                  ELSE <<1, (h % 12) - 10>>)
            /\ Formatted.minutes = <<m \div 10, m % 10>>
            /\ Formatted.ampm \in {"AM", "PM"}
            /\ Formatted.ampm = "PM" <=> h >= 12

\* C34 witness: 12:05 after noon is formatted as 12, 05, PM.
C34_Witness ==
    /\ lastOp = "formatTime12Hr"
    /\ now = DateAt(12, 5)
    /\ Formatted = [hours |-> <<1, 2>>, minutes |-> <<0, 5>>, ampm |-> "PM"]

----------------------------------------------------------------------------
(* Claims about a failed load-more.                                        *)
\* The load-more request lastReq' fails in this step, and since its call no
\* other operation moved the cursor or published to its list.
LoadMoreFails ==
    /\ lastOp' = "fetchMore.failed"
    /\ ~CursorStale(lastReq')
    /\ ListOf(lastReq').tag = "data"
    /\ ListOf(lastReq').transactions = lastReq'.existing

\* C35: a load-more whose fetch fails (error response or rejection) leaves
\* the cursor offset and the accumulated items as they were before the call:
\* the offset is back at the value the call found and the list still holds
\* the items the call read.
C35_FailedLoadMoreRestores ==
    [][LoadMoreFails =>
         /\ offset' = CursorAtIssue(lastReq') - pageSize
         /\ IF lastReq'.list = "main"
            THEN /\ transactionsObservableRef'.tag = "data"
                 /\ transactionsObservableRef'.transactions = lastReq'.existing
            ELSE /\ circleTransactionsObservableRef'.tag = "data"
                 /\ circleTransactionsObservableRef'.transactions = lastReq'.existing]_vars

----------------------------------------------------------------------------
(* Claims about calls for two transactions and about one call's effects.    *)
\* C36: when calls for different transactions interleave, each suspended at
\* its status fetch, no call's write discards what the other wrote: on the
\* return of a status fetch every record in the persisted list stays, and
\* the record of the other transaction stays as it was.
C36_NoLostUpdate ==
    [][StatusReturned =>
         \A id \in TxnIds2 :
            HasRecord(prefs, id) =>
               /\ HasRecord(prefs', id)
               /\ id # lastPoll'.id => RecordOf(prefs', id) = RecordOf(prefs, id)]_vars

PollEnded == lastOp' \in {"statusResolved", "statusRejected"}

\* C37: one call performs at most one status fetch and at most one write of
\* the persisted list, in every branch: the step of the call starts at most
\* one fetch and writes nothing, the step that ends the fetch starts no other
\* fetch, and the list is written only in the step in which a fetch returns.
C37_OneFetchOneWrite ==
    [][/\ PollCalled => /\ Cardinality(polls') <= Cardinality(polls) + 1
                        /\ polls \subseteq polls'
                        /\ prefs' = prefs
       /\ PollEnded => /\ polls' \subseteq polls
                       /\ Cardinality(polls') = Cardinality(polls) - 1
       /\ prefs' # prefs => StatusReturned]_vars

\* C37 witness: a call past checkpoint2 has made its fetch, the fetch has
\* returned and the record was written; no fetch is outstanding.
C37_Witness ==
    /\ lastPoll.step = "response" /\ lastPoll.branch = "after"
    /\ lastPoll.status = "PENDING"
    /\ polls = {}
    /\ HasRecord(prefs, lastPoll.id)
    /\ RecordOf(prefs, lastPoll.id).reqChkTxnParams = lastPoll.reqChkTxnParams

\* C38: one call shows at most one notification (one info or one error),
\* whatever the exhausted flag, the counters and the returned status: the
\* notifications shown by the step of a call, and by the step in which its
\* fetch returns or fails, are at most one.
C38_AtMostOneNotification == Len(lastSnacks) <= 1

OneRecordPerId(data) ==
    \A i, j \in 1 .. Len(data) : data[i].transactionId = data[j].transactionId => i = j

\* C39: under serial calls the persisted list holds at most one record per
\* transaction id: a record is prepended only for a transaction that has
\* none, and a call for a transaction that has one leaves the list with the
\* same transactions at the same positions.
C39_OneRecordPerTransaction ==
    [][/\ OneRecordPerId(prefs')
       /\ Len(prefs') # Len(prefs) =>
             /\ StatusReturned
             /\ \A k \in 1 .. Len(prefs) : prefs[k].transactionId # lastPoll'.id
             /\ prefs'[1].transactionId = lastPoll'.id
             /\ SubSeq(prefs', 2, Len(prefs')) = prefs
       /\ (StatusReturned /\ \E k \in 1 .. Len(prefs) : prefs[k].transactionId = lastPoll'.id) =>
             /\ Len(prefs') = Len(prefs)
             /\ \A k \in 1 .. Len(prefs) : prefs'[k].transactionId = prefs[k].transactionId]_vars

\* C39 witness: with one record for each of the two transactions, a later
\* fetch for transaction 2, whose record is the second of the list, has
\* updated that record where it was.
C39_Witness ==
    /\ lastPoll.step = "response" /\ lastPoll.id = 2 /\ lastPoll.branch = "within"
    /\ Len(prefs) = 2
    /\ prefs[1].transactionId = 1 /\ prefs[2].transactionId = 2
    /\ prefs[2].reqChkTxnParams.currentCount = 2
    /\ prefs[2].reqChkTxnParams = lastPoll.reqChkTxnParams

----------------------------------------------------------------------------
(* Claims about the number of status fetches.                              *)
FetchStarted == PollCalled /\ polls' # polls
BeforeCheckpoint2 == \A id \in TxnIds : AgeMs(id) < ServerCheckPoint2 * 1000
PersistedCount(data, id) == RecordOf(data, id).reqChkTxnParams.currentCount
CountReachedMax(data, id) ==
    /\ HasRecord(data, id)
    /\ ~RecordOf(data, id).isReqChkTxnExhausted
    /\ PersistedCount(data, id) = ServerMaxCount

\* C40 (as stated): with a server that raises currentCount by one on every
\* status fetch and reports a fixed maxCount, at most maxCount status fetches
\* are performed for a transaction before checkpoint2, and once the persisted
\* currentCount has reached maxCount a call before checkpoint2 fetches nothing.
C40_Original ==
    [][/\ (FetchStarted /\ BeforeCheckpoint2) => served' <= ServerMaxCount
       /\ (PollCalled /\ BeforeCheckpoint2 /\ CountReachedMax(prefs, lastPoll'.id))
             => polls' = polls]_vars

\* C40 (as amended): with such a server and serial calls, a status fetch is
\* started before checkpoint2 only for a transaction without a record or with
\* a persisted currentCount below maxCount; a fetch that returns persists the
\* count the server reports, which is above the one persisted before; a fetch
\* that fails changes no record; and once the persisted currentCount has
\* reached maxCount a call before checkpoint2 fetches nothing.  So at most
\* maxCount fetches return before checkpoint2, failed fetches not counted.
C40_ReturnedFetchesBounded ==
    [][/\ (FetchStarted /\ BeforeCheckpoint2) =>
             \/ ~HasRecord(prefs, lastPoll'.id)
             \/ PersistedCount(prefs, lastPoll'.id) < ServerMaxCount
       /\ StatusReturned =>
             /\ HasRecord(prefs', lastPoll'.id)
             /\ PersistedCount(prefs', lastPoll'.id) = served
             /\ PersistedCount(prefs', lastPoll'.id) >= 1
             /\ HasRecord(prefs, lastPoll'.id) =>
                   PersistedCount(prefs', lastPoll'.id) > PersistedCount(prefs, lastPoll'.id)
       /\ lastOp' = "statusRejected" => prefs' = prefs
       /\ (PollCalled /\ BeforeCheckpoint2 /\ CountReachedMax(prefs, lastPoll'.id))
             => polls' = polls]_vars

\* C40 witness: maxCount fetches have returned, the persisted count is
\* maxCount, and a further call before checkpoint2 has fetched nothing.
C40_Witness ==
    /\ lastPoll.step = "call" /\ lastPoll.branch = "cooldown"
    /\ BeforeCheckpoint2
    /\ CountReachedMax(prefs, lastPoll.id)
    /\ served = ServerMaxCount
    /\ polls = {}

====
